---- MODULE Spec2Model ----
(***************************************************************************)
(* A model of the weather dashboard of src/src/app.jsx: the App component  *)
(* state (query, place, current, daily, loading, error), the persisted     *)
(* "weather_last_place" slot of localStorage, and the asynchronous         *)
(* handleSearch pipeline (geocodePlace, then fetchWeather).                *)
(*                                                                         *)
(* JavaScript is single-threaded: a handler runs without interruption from *)
(* one await to the next.  Each action below is one such run: the code     *)
(* from an entry point (or from the resumption after an await) up to the   *)
(* next await or the return.  Several calls of handleSearch may be         *)
(* suspended at the same time; `attempts` holds one entry per call.        *)
(*                                                                         *)
(* Representation.  A JavaScript string that the code takes apart or puts  *)
(* together (the query, a place name) is a sequence of characters or of    *)
(* text pieces; a message that is only stored and shown is a TLA+ string.  *)
(* A value that may be null/undefined is a sequence of length 0 or 1:      *)
(* None is null/undefined, Some(v) is v.                                   *)
(***************************************************************************)
EXTENDS Integers, Sequences, FiniteSets, TLC

(***************************************************************************)
(* Bounds of the model.                                                    *)
(***************************************************************************)
\* most letters of a text typed into the search box
MaxQueryLen == 1
\* most calls of handleSearch suspended at the same time
MaxInFlight == 2
\* most entries of the daily series in a weather response
MaxDays == 8
\* the weather codes handed to mapWmo run from -MaxCode to MaxCode
MaxCode == 99

(***************************************************************************)
(* Program constant: the end index of dailyList.slice(0, 7).               *)
(***************************************************************************)
ForecastDays == 7

None == <<>>
Some(v) == <<v>>

Min(a, b) == IF a < b THEN a ELSE b

(***************************************************************************)
(* Strings of the search box.                                              *)
(***************************************************************************)
Letters == {"a"}

\* the texts of letters only, the empty text among them
Words == UNION {[1..n -> Letters] : n \in 0..MaxQueryLen}

\* a text with a space before it and a space after it
Padded(w) == <<" ">> \o w \o <<" ">>

\* the texts typed: each word, bare and padded
Queries == Words \cup {Padded(w) : w \in Words}

IsWhitespace(c) == c = " "

RECURSIVE TrimStart(_)
TrimStart(s) ==
    IF s # <<>> /\ IsWhitespace(Head(s)) THEN TrimStart(Tail(s)) ELSE s

\* trailing whitespace left in place, as trimStart alone would
TrimEndNoop(s) == s
RECURSIVE TrimEnd(_)
TrimEnd(s) ==
    IF s # <<>> /\ IsWhitespace(s[Len(s)])
    THEN TrimEnd(SubSeq(s, 1, Len(s) - 1))
    ELSE s

\* trim left out: the query is used as typed
trimNoop(s) == s
\* String.prototype.trim, as called on the query
trim(s) == TrimEnd(TrimStart(s))

\* slice with its end index taken as inclusive
sliceOneMore(s, from, to) == SubSeq(s, from + 1, Min(to + 1, Len(s)))
\* Array.prototype.slice(from, to) for 0 <= from <= to
slice(s, from, to) == SubSeq(s, from + 1, Min(to, Len(s)))

(***************************************************************************)
(* The weather code table.  WMO_MAP is an object: its keys are strings,    *)
(* and WMO_MAP[code] looks up the string the code converts to.  A key is a *)
(* sequence of characters.  Of the entries only `text` is modelled; the    *)
(* emoji is left out.                                                      *)
(***************************************************************************)
DecimalDigits == <<"0", "1", "2", "3", "4", "5", "6", "7", "8", "9">>

\* the decimal digits of n >= 0
RECURSIVE DigitsOf(_)
DigitsOf(n) ==
    IF n < 10
    THEN <<DecimalDigits[n + 1]>>
    ELSE DigitsOf(n \div 10) \o <<DecimalDigits[(n % 10) + 1]>>

\* String(n) for an integer n
NumberToString(n) == IF n < 0 THEN <<"-">> \o DigitsOf(0 - n) ELSE DigitsOf(n)

\* the property key a code converts to; null gives "null" (and undefined
\* "undefined", a key the table lacks just the same)
PropertyKey(code) ==
    IF code = None THEN <<"n", "u", "l", "l">> ELSE NumberToString(code[1])

WMO_MAP ==
    (<<"0">> :> [text |-> "Clear"])
    @@ (<<"1">> :> [text |-> "Mainly clear"])
    @@ (<<"2">> :> [text |-> "Partly cloudy"])
    @@ (<<"3">> :> [text |-> "Overcast"])
    @@ (<<"4", "5">> :> [text |-> "Fog"])
    @@ (<<"4", "8">> :> [text |-> "Depositing rime fog"])
    @@ (<<"5", "1">> :> [text |-> "Light drizzle"])
    @@ (<<"5", "3">> :> [text |-> "Moderate drizzle"])
    @@ (<<"5", "5">> :> [text |-> "Dense drizzle"])
    @@ (<<"6", "1">> :> [text |-> "Slight rain"])
    @@ (<<"6", "3">> :> [text |-> "Moderate rain"])
    @@ (<<"6", "5">> :> [text |-> "Heavy rain"])
    @@ (<<"7", "1">> :> [text |-> "Slight snow"])
    @@ (<<"7", "3">> :> [text |-> "Moderate snow"])
    @@ (<<"7", "5">> :> [text |-> "Heavy snow"])
    @@ (<<"8", "0">> :> [text |-> "Rain showers"])
    @@ (<<"9", "5">> :> [text |-> "Thunderstorm"])

\* the object after || in mapWmo
Fallback == [text |-> "Unknown"]

\* the table consulted for truthy codes only: code ? WMO_MAP[code] : fallback
mapWmoTruthy(code) ==
    IF code # None /\ code[1] # 0 /\ PropertyKey(code) \in DOMAIN WMO_MAP
    THEN WMO_MAP[PropertyKey(code)]
    ELSE Fallback
\* WMO_MAP[code] || fallback; every entry of the table is an object, so ||
\* yields the fallback exactly when the key is missing
mapWmo(code) ==
    IF PropertyKey(code) \in DOMAIN WMO_MAP
    THEN WMO_MAP[PropertyKey(code)]
    ELSE Fallback

\* the codes the model hands to mapWmo: null and the integers of the range
CodeInputs == {None} \cup {Some(n) : n \in (0 - MaxCode)..MaxCode}

(***************************************************************************)
(* Exceptions and return values of the two async functions.                *)
(***************************************************************************)
Throw(m) == [threw |-> TRUE, message |-> m, value |-> None]
Return(v) == [threw |-> FALSE, message |-> "", value |-> Some(v)]

\* messages a rejected fetch() or res.json() may carry; "" is an error
\* without a message
TransportMessages == {"", "Failed to fetch"}

\* the message of the TypeError of an index into an undefined array
TypeErrorMessage == "Cannot read properties of undefined"

(***************************************************************************)
(* Geocoding responses.  A candidate's country is <<>> when the service    *)
(* supplied none (or an empty one: the code tests its truthiness).         *)
(***************************************************************************)
London == [name |-> <<"London">>, country |-> <<"United Kingdom">>,
           latitude |-> 51, longitude |-> 0]
Paris == [name |-> <<"Paris">>, country |-> <<>>,
          latitude |-> 48, longitude |-> 2]
\* the values of data.results the model draws from: no candidate, one
\* candidate, two candidates
ResultLists == {<<>>, <<London>>, <<Paris, London>>}

\* rejected: fetch() or res.json() rejected with `message`;
\* ok: res.ok; results: data.results, None when the body has none
GeoResponses ==
    {[rejected |-> TRUE, message |-> m, ok |-> FALSE, results |-> None] :
        m \in TransportMessages}
    \cup {[rejected |-> FALSE, message |-> "", ok |-> FALSE, results |-> None]}
    \cup {[rejected |-> FALSE, message |-> "", ok |-> TRUE, results |-> None]}
    \cup {[rejected |-> FALSE, message |-> "", ok |-> TRUE, results |-> Some(r)] :
            r \in ResultLists}

\* the last candidate taken in place of the first
LastCandidate(results) == results[Len(results)]
\* const p = data.results[0]
FirstCandidate(results) == results[1]

\* p.name + (p.country ? ", " + p.country : "")
DisplayName(p) ==
    p.name \o (IF p.country # <<>> THEN <<", ">> \o p.country ELSE <<>>)

geocodePlace(res) ==
    IF res.rejected THEN Throw(res.message)
    ELSE IF ~res.ok THEN Throw("Geocoding failed")
    ELSE IF res.results = None \/ Len(res.results[1]) = 0
         THEN Throw("No places found")
    ELSE LET p == FirstCandidate(res.results[1])
         IN  Return([name |-> DisplayName(p),
                     lat |-> p.latitude, lon |-> p.longitude])

(***************************************************************************)
(* Weather responses.  `data` is the parsed body: each block and each      *)
(* field may be missing.  Timestamps and dates are numbers (hours, days).  *)
(***************************************************************************)
\* the object {} that stands in for a missing current_weather block
EmptyObject ==
    [temperature |-> None, windspeed |-> None, weathercode |-> None,
     time |-> None]

\* arr[i] for a 0-based index i: None (undefined) past the end
At(arr, i) == IF 0 <= i /\ i < Len(arr) THEN Some(arr[i + 1]) ELSE None

\* the last index of v in place of the first
LastIndexOf(arr, v) ==
    IF v # None /\ \E k \in 1..Len(arr) : arr[k] = v[1]
    THEN (CHOOSE k \in 1..Len(arr) :
            /\ arr[k] = v[1]
            /\ \A j \in (k + 1)..Len(arr) : arr[j] # v[1]) - 1
    ELSE -1
\* arr.indexOf(v): the first 0-based index of v, -1 when there is none;
\* an undefined v is found in no array of timestamps
IndexOf(arr, v) ==
    IF v # None /\ \E k \in 1..Len(arr) : arr[k] = v[1]
    THEN (CHOOSE k \in 1..Len(arr) :
            /\ arr[k] = v[1]
            /\ \A j \in 1..(k - 1) : arr[j] # v[1]) - 1
    ELSE -1

\* the humidity of the hour of the current observation
Humidity(data, cw) ==
    IF /\ data.hourly # None
       /\ data.hourly[1].time # None
       /\ data.hourly[1].relativehumidity_2m # None
    THEN LET idx == IndexOf(data.hourly[1].time[1], cw.time)
         IN  IF idx >= 0
             THEN At(data.hourly[1].relativehumidity_2m[1], idx)
             ELSE None
    ELSE None

\* the loop over data.daily.time; indexing a missing array throws
DailyList(data) ==
    IF data.daily # None /\ data.daily[1].time # None
    THEN LET d == data.daily[1]
             n == Len(d.time[1])
         IN  IF n > 0 /\ (\/ d.temperature_2m_max = None
                          \/ d.temperature_2m_min = None
                          \/ d.weathercode = None)
             THEN Throw(TypeErrorMessage)
             ELSE Return([i \in 1..n |->
                            [date |-> d.time[1][i],
                             max |-> At(d.temperature_2m_max[1], i - 1),
                             min |-> At(d.temperature_2m_min[1], i - 1),
                             code |-> At(d.weathercode[1], i - 1)]])
    ELSE Return(<<>>)

fetchWeather(res) ==
    IF res.rejected THEN Throw(res.message)
    ELSE IF ~res.ok THEN Throw("Weather API failed")
    ELSE LET data == res.data[1]
             cw == IF data.current_weather # None
                   THEN data.current_weather[1]
                   ELSE EmptyObject
             currentData ==
                 [temp |-> cw.temperature,
                  wind |-> cw.windspeed,
                  weathercode |-> cw.weathercode,
                  time |-> cw.time,
                  humidity |-> Humidity(data, cw)]
             dailyList == DailyList(data)
         IN  IF dailyList.threw
             THEN dailyList
             ELSE Return([currentData |-> currentData,
                          dailyList |-> dailyList.value[1]])

(***************************************************************************)
(* The weather bodies the model draws from.                                *)
(***************************************************************************)
HourlyTimes == <<9, 10, 11, 12>>
HourlyHumidity == <<70, 72, 75, 77>>

\* a complete body with n days; the observation time is one of the hourly
\* timestamps iff `matched`
WeatherData(n, matched) ==
    [current_weather |->
        Some([temperature |-> Some(10 + n), windspeed |-> Some(5),
              weathercode |-> Some(3),
              time |-> Some(IF matched THEN 12 ELSE 13)]),
     hourly |-> Some([time |-> Some(HourlyTimes),
                      relativehumidity_2m |-> Some(HourlyHumidity)]),
     daily |-> Some([time |-> Some([i \in 1..n |-> i]),
                     temperature_2m_max |-> Some([i \in 1..n |-> 20 + i]),
                     temperature_2m_min |-> Some([i \in 1..n |-> 10 + i]),
                     weathercode |-> Some([i \in 1..n |-> i % 4])])]

\* the body {}
EmptyData == [current_weather |-> None, hourly |-> None, daily |-> None]

\* a body whose daily block has dates but no temperature_2m_max array
NoMaxData ==
    [current_weather |-> None, hourly |-> None,
     daily |-> Some([time |-> Some(<<1>>),
                     temperature_2m_max |-> None,
                     temperature_2m_min |-> Some(<<11>>),
                     weathercode |-> Some(<<1>>)])]

\* the lengths of the daily series: short, one below the longest, the longest
DayCounts == {2, MaxDays - 1, MaxDays}

WeatherBodies ==
    {WeatherData(n, n < MaxDays) : n \in DayCounts}
    \cup {EmptyData, NoMaxData}

WeatherResponses ==
    {[rejected |-> TRUE, message |-> m, ok |-> FALSE, data |-> None] :
        m \in TransportMessages}
    \cup {[rejected |-> FALSE, message |-> "", ok |-> FALSE, data |-> None]}
    \cup {[rejected |-> FALSE, message |-> "", ok |-> TRUE, data |-> Some(d)] :
            d \in WeatherBodies}

(***************************************************************************)
(* The weather responses fetchWeather is applied to on its own: bodies in  *)
(* which every block and every field is there or missing, independently.   *)
(* The observation time is an hourly timestamp that occurs twice (10), one *)
(* that does not occur (13), or missing; the humidity series is as long as *)
(* the hourly timestamps or shorter.                                       *)
(***************************************************************************)
Optional(S) == {None} \cup {Some(v) : v \in S}

CurrentBlocks ==
    Optional([temperature : Optional({18}), windspeed : Optional({5}),
              weathercode : Optional({3}), time : Optional({10, 13})])
HourlyBlocks ==
    Optional([time : Optional({<<9, 10, 10>>}),
              relativehumidity_2m : Optional({<<70, 72, 75>>, <<70>>})])
DailyBlocks ==
    Optional([time : Optional({<<>>, <<1, 2>>}),
              temperature_2m_max : Optional({<<21, 22>>}),
              temperature_2m_min : Optional({<<11, 12>>}),
              weathercode : Optional({<<0, 61>>})])

FetchBodies ==
    [current_weather : CurrentBlocks, hourly : HourlyBlocks,
     daily : DailyBlocks]

FetchInputs ==
    {[rejected |-> TRUE, message |-> m, ok |-> FALSE, data |-> None] :
        m \in TransportMessages}
    \cup {[rejected |-> FALSE, message |-> "", ok |-> FALSE, data |-> None]}
    \cup {[rejected |-> FALSE, message |-> "", ok |-> TRUE, data |-> Some(d)] :
            d \in FetchBodies}

(***************************************************************************)
(* State.                                                                  *)
(*   query, place, current, daily, loading, error: the useState cells.     *)
(*   storage:  localStorage["weather_last_place"], None when unset.        *)
(*   attempts: the suspended calls of handleSearch, oldest first.          *)
(*   booted:   whether the mount effect has run since the page loaded.     *)
(* History variables, read by the properties only:                         *)
(*   last:      what the step just taken was (a search invocation, a       *)
(*              settlement), NoEvent for every other step;                 *)
(*   succeeded: whether any call has ended in success;                     *)
(*   dailySrc:  the dailyList the fetcher returned to the call that last   *)
(*              set `daily`;                                               *)
(*   pre:       at a page reload right after a successful settlement, the  *)
(*              call that settled and the state it left; None otherwise,   *)
(*              and None again once the replayed search has settled or the *)
(*              user has acted;                                            *)
(*   early:     None while no call has failed since the page loaded; after *)
(*              the first failure, how many of the calls in flight started *)
(*              before it (they are the oldest ones);                      *)
(*   recording: whether `early` is kept; fixed by the initial condition,   *)
(*              and when FALSE `early` stays None.                         *)
(* For the specifications that apply one function on its own:              *)
(*   arg: the argument drawn for it; ret: what it gave, None before the    *)
(*        call.  Both stay None in the specification of the application.   *)
(***************************************************************************)
VARIABLES query, place, current, daily, loading, error, storage, attempts,
          booted, last, succeeded, dailySrc, pre, early, recording, arg, ret

vars == <<query, place, current, daily, loading, error, storage, attempts,
          booted, last, succeeded, dailySrc, pre, early, recording, arg, ret>>

NoRequest == [kind |-> "none", name |-> <<>>, lat |-> 0, lon |-> 0]
GeoRequest(name) == [kind |-> "geo", name |-> name, lat |-> 0, lon |-> 0]
WeatherRequest(lat, lon) ==
    [kind |-> "wx", name |-> <<>>, lat |-> lat, lon |-> lon]

\* A suspended call: pc is the await it is at ("geo": geocodePlace, "wx":
\* fetchWeather); q and p are its locals; req is the request it has
\* outstanding.  History: geo is the geocoding response it received, ov
\* whether another call was in flight during its life.
NewAttempt(q, ov) ==
    [pc |-> "geo", q |-> q, p |-> None, req |-> GeoRequest(q),
     geo |-> None, ov |-> ov]

InFlight == DOMAIN attempts
AllSettled == attempts = <<>>

\* attempts without its i-th entry
Remove(i) ==
    [j \in 1..(Len(attempts) - 1) |->
        IF j < i THEN attempts[j] ELSE attempts[j + 1]]

NoOutcome == [place |-> None, current |-> None, daily |-> <<>>, error |-> ""]

NoEvent == [op |-> "other", input |-> <<>>, ok |-> FALSE, q |-> <<>>,
            message |-> "", ov |-> FALSE, at |-> 0, retry |-> FALSE,
            geo |-> None, wx |-> None, req |-> NoRequest, alone |-> NoOutcome]

SearchEvent(text) == [NoEvent EXCEPT !.op = "search", !.input = text]

\* whether call i started after a call had failed: the calls that started
\* before are the `early` oldest ones
IsRetry(i) == early # None /\ i > early[1]

\* `early` after call i has settled
EarlyAfter(i, ok) ==
    IF ~recording THEN early
    ELSE IF early = None
         THEN IF ok THEN None ELSE Some(Len(attempts) - 1)
    ELSE IF i <= early[1] THEN Some(early[1] - 1) ELSE early

\* an event: call i settled; `at` is its place among the calls in flight,
\* `alone` is the state the call leaves when no other call runs during its
\* life
SettleEvent(i, ok, message, geo, wx, outcome) ==
    [op |-> "settle", input |-> <<>>, ok |-> ok, q |-> attempts[i].q,
     message |-> message, ov |-> attempts[i].ov, at |-> i,
     retry |-> IsRetry(i), geo |-> geo, wx |-> wx, req |-> attempts[i].req,
     alone |-> outcome]

\* the initial values of the useState cells, before the mount effect
AppInit ==
    /\ query = <<>>
    /\ place = None
    /\ current = None
    /\ daily = <<>>
    /\ loading = FALSE
    /\ error = ""
    /\ storage = None
    /\ attempts = <<>>
    /\ booted = FALSE
    /\ last = NoEvent
    /\ succeeded = FALSE
    /\ dailySrc = <<>>
    /\ pre = None
    /\ early = None

Init == AppInit /\ recording = FALSE /\ arg = None /\ ret = None

(***************************************************************************)
(* handleSearch(input), up to its first await.  `text` is input ?? query   *)
(* as the caller evaluates it.  With an empty trimmed query it returns at  *)
(* once; otherwise it sets loading, clears error and suspends on the       *)
(* geocoding request.  The model has room for MaxInFlight suspended calls. *)
(***************************************************************************)
\* if (!q) return
IsEmpty(q) == q = <<>>

handleSearch(text) ==
    LET q == trim(text)
    IN  /\ last' = SearchEvent(text)
        /\ IF IsEmpty(q)
           THEN UNCHANGED <<loading, error, attempts>>
           ELSE /\ Len(attempts) < MaxInFlight
                /\ attempts' =
                     Append([j \in InFlight |-> [attempts[j] EXCEPT !.ov = TRUE]],
                            NewAttempt(q, attempts # <<>>))
                /\ loading' = TRUE
                /\ error' = ""

\* the stored query taken as never there
HasLastNever(item) == FALSE
\* if (last): getItem returned a string, and it is not the empty string
HasLast(item) == item # None /\ item[1] # <<>>

\* the mount effect: replay the stored query, if there is one
Startup ==
    /\ ~booted
    /\ booted' = TRUE
    /\ IF HasLast(storage)
       THEN /\ query' = storage[1]
            /\ handleSearch(storage[1])
            /\ pre' = IF attempts' = <<>> THEN None ELSE pre
       ELSE /\ UNCHANGED <<query, loading, error, attempts>>
            /\ last' = NoEvent
            /\ pre' = None
    /\ UNCHANGED <<place, current, daily, storage, succeeded, dailySrc,
                   early, recording, arg, ret>>

\* onChange of the search box
SetQuery(text) ==
    /\ booted
    /\ query' = text
    /\ last' = NoEvent
    /\ pre' = None
    /\ UNCHANGED <<place, current, daily, loading, error, storage, attempts,
                   booted, succeeded, dailySrc, early, recording, arg, ret>>

\* the Search button, or Enter in the search box: handleSearch()
Submit ==
    /\ booted
    /\ handleSearch(query)
    /\ pre' = None
    /\ UNCHANGED <<query, place, current, daily, storage, booted, succeeded,
                   dailySrc, early, recording, arg, ret>>

(***************************************************************************)
(* The rest of handleSearch: the resumptions after the two awaits.         *)
(***************************************************************************)
\* err.message without the fallback text
ErrorTextNoFallback(message) == message
\* err.message || "Failed to fetch weather"
ErrorText(message) ==
    IF message # "" THEN message ELSE "Failed to fetch weather"

\* the catch block without the finally block: loading is left as it is
CatchNoFinally(i, message, geo, wx) ==
    /\ error' = ErrorText(message)
    /\ place' = None
    /\ current' = None
    /\ daily' = <<>>
    /\ attempts' = Remove(i)
    /\ last' = SettleEvent(i, FALSE, message, geo, wx,
                           [NoOutcome EXCEPT !.error = ErrorText(message)])
    /\ dailySrc' = <<>>
    /\ pre' = None
    /\ early' = EarlyAfter(i, FALSE)
    /\ UNCHANGED <<query, loading, storage, booted, succeeded, recording,
                   arg, ret>>
\* the catch block and the finally block, for an error with `message`
\* thrown in call i
Catch(i, message, geo, wx) ==
    /\ error' = ErrorText(message)
    /\ place' = None
    /\ current' = None
    /\ daily' = <<>>
    /\ loading' = FALSE
    /\ attempts' = Remove(i)
    /\ last' = SettleEvent(i, FALSE, message, geo, wx,
                           [NoOutcome EXCEPT !.error = ErrorText(message)])
    /\ dailySrc' = <<>>
    /\ pre' = None
    /\ early' = EarlyAfter(i, FALSE)
    /\ UNCHANGED <<query, storage, booted, succeeded, recording, arg, ret>>

\* call i receives the answer to its geocoding request: geocodePlace
\* returns or throws; on return setPlace, localStorage.setItem and the
\* weather request
GeoRespond(i, res) ==
    /\ attempts[i].pc = "geo"
    /\ LET r == geocodePlace(res)
       IN  IF r.threw
           THEN Catch(i, r.message, Some(res), None)
           ELSE LET p == r.value[1]
                IN  /\ place' = Some(p)
                    /\ storage' = Some(attempts[i].q)
                    /\ attempts' =
                         [attempts EXCEPT ![i] =
                            [@ EXCEPT !.pc = "wx", !.p = Some(p),
                                      !.req = WeatherRequest(p.lat, p.lon),
                                      !.geo = Some(res)]]
                    /\ last' = NoEvent
                    /\ UNCHANGED <<query, current, daily, loading, error,
                                   booted, succeeded, dailySrc, pre,
                                   early, recording, arg, ret>>

\* call i receives the answer to its weather request: fetchWeather returns
\* or throws; on return setCurrent, setDaily and the finally block
WxRespond(i, res) ==
    /\ attempts[i].pc = "wx"
    /\ LET r == fetchWeather(res)
       IN  IF r.threw
           THEN Catch(i, r.message, attempts[i].geo, Some(res))
           ELSE LET currentData == r.value[1].currentData
                    dailyList == r.value[1].dailyList
                IN  /\ current' = Some(currentData)
                    /\ daily' = slice(dailyList, 0, ForecastDays)
                    /\ loading' = FALSE
                    /\ attempts' = Remove(i)
                    /\ last' = SettleEvent(i, TRUE, "",
                                 attempts[i].geo, Some(res),
                                 [place |-> attempts[i].p,
                                  current |-> Some(currentData),
                                  daily |-> slice(dailyList, 0, ForecastDays),
                                  error |-> ""])
                    /\ succeeded' = TRUE
                    /\ dailySrc' = dailyList
                    /\ pre' = None
                    /\ early' = EarlyAfter(i, TRUE)
                    /\ UNCHANGED <<query, place, error, storage, booted,
                                   recording, arg, ret>>

\* the page is reloaded: the component state starts afresh, the suspended
\* calls are gone, localStorage stays
Restart ==
    /\ booted
    /\ query' = <<>>
    /\ place' = None
    /\ current' = None
    /\ daily' = <<>>
    /\ loading' = FALSE
    /\ error' = ""
    /\ attempts' = <<>>
    /\ booted' = FALSE
    /\ last' = NoEvent
    /\ dailySrc' = <<>>
    /\ pre' = IF last.op = "settle" /\ last.ok
              THEN Some([q |-> last.q, geo |-> last.geo, wx |-> last.wx,
                         place |-> place, current |-> current,
                         daily |-> daily])
              ELSE None
    /\ early' = None
    /\ UNCHANGED <<storage, succeeded, recording, arg, ret>>

Next ==
    \/ Startup
    \/ \E text \in Queries : SetQuery(text)
    \/ Submit
    \/ \E i \in InFlight : \E res \in GeoResponses : GeoRespond(i, res)
    \/ \E i \in InFlight : \E res \in WeatherResponses : WxRespond(i, res)
    \/ Restart

Spec == Init /\ [][Next]_vars

(***************************************************************************)
(* The application when every request is answered in the end.  Answered(k) *)
(* is the step in which the k-th oldest call in flight receives the        *)
(* answer, a response or a rejection, to the request it has outstanding.   *)
(* A call moves toward the head of `attempts` as older calls settle and    *)
(* never away from it, so weak fairness of Answered(k) for every k is what *)
(* "each request is answered" comes to.                                    *)
(***************************************************************************)
Answered(k) ==
    /\ k \in InFlight
    /\ \/ \E res \in GeoResponses : GeoRespond(k, res)
       \/ \E res \in WeatherResponses : WxRespond(k, res)

FairSpec == Spec /\ \A k \in 1..MaxInFlight : WF_vars(Answered(k))

\* the application with the record of which calls started after a failure
InitRetry == AppInit /\ recording = TRUE /\ arg = None /\ ret = None

SpecRetry == InitRetry /\ [][Next]_vars

(***************************************************************************)
(* mapWmo on its own: a code is drawn, the render calls mapWmo(code).      *)
(***************************************************************************)
app == <<query, place, current, daily, loading, error, storage, attempts,
         booted, last, succeeded, dailySrc, pre, early, recording>>

InitWmo ==
    /\ AppInit
    /\ recording = FALSE
    /\ arg \in {Some(c) : c \in CodeInputs}
    /\ ret = None

Classify ==
    /\ ret = None
    /\ ret' = Some(mapWmo(arg[1]))
    /\ UNCHANGED <<app, arg>>

NextWmo == Classify

SpecWmo == InitWmo /\ [][NextWmo]_vars

(***************************************************************************)
(* fetchWeather on its own: a response to its request is drawn, the        *)
(* function returns or throws.                                             *)
(***************************************************************************)
InitFetch ==
    /\ AppInit
    /\ recording = FALSE
    /\ arg \in {Some(r) : r \in FetchInputs}
    /\ ret = None

Fetch ==
    /\ ret = None
    /\ ret' = Some(fetchWeather(arg[1]))
    /\ UNCHANGED <<app, arg>>

NextFetch == Fetch

SpecFetch == InitFetch /\ [][NextFetch]_vars

(***************************************************************************)
(* Properties.                                                             *)
(***************************************************************************)
\* the four cells a settlement writes
Shown == [place |-> place, current |-> current, daily |-> daily,
          error |-> error]

\* C1: last write wins.  When a call that overlapped another call settles
\* and leaves no call in flight, place, current, daily and error are what
\* that call, the last to settle, leaves when it runs alone.
C1_LastWriteWins ==
    (last.op = "settle" /\ last.ov /\ AllSettled) => Shown = last.alone

\* C2: whenever no call is in flight, place and current are both null or
\* both populated.
C2_PlaceAndCurrentTogether ==
    AllSettled => ((place = None) <=> (current = None))

\* C3: right after a call settles with a failure, error is the message of
\* the error, or the fallback text when it has none, and is not empty;
\* place and current are null and daily is empty.
C3_FailureClears ==
    (last.op = "settle" /\ ~last.ok) =>
        /\ error = (IF last.message = "" THEN "Failed to fetch weather"
                    ELSE last.message)
        /\ error # ""
        /\ place = None
        /\ current = None
        /\ daily = <<>>

\* a weather-stage failure whose error has no message has just settled,
\* while another call is still in flight
C3_Witness ==
    /\ last.op = "settle"
    /\ ~last.ok
    /\ last.wx # None
    /\ last.message = ""
    /\ attempts # <<>>

\* C4: right after a call settles with success, error is empty.
C4_SuccessClearsError ==
    (last.op = "settle" /\ last.ok) => error = ""

\* C5: the stored query is written by successful searches only: as long as
\* no call has ended in success, and none is in flight, the slot holds its
\* initial value.
C5_StoredOnlyOnSuccess ==
    (AllSettled /\ ~succeeded) => storage = None

\* C6: the round trip through a page reload.  After a reload that follows
\* the successful settlement of a search for q, the mount effect issues one
\* search, for trim(q); and when that search, the only call in flight
\* since the reload, receives the responses the first one received, it
\* settles in success with the place, current and daily the first one left.
C6_ReloadRoundTrip ==
    [][/\ (pre # None /\ ~booted /\ booted') =>
            /\ Len(attempts') = 1
            /\ attempts'[1].q = pre[1].q
            /\ attempts'[1].req = GeoRequest(pre[1].q)
       /\ (/\ pre # None
           /\ last'.op = "settle"
           /\ last'.geo = pre[1].geo
           /\ last'.wx = pre[1].wx) =>
            /\ last'.ok
            /\ place' = pre[1].place
            /\ current' = pre[1].current
            /\ daily' = pre[1].daily]_vars

\* C7: while a call that runs alone is in flight (from its start to the
\* step before it settles), place, current and daily do not change.
C7_DataUntouchedInFlight ==
    [][(/\ Len(attempts) = 1 /\ ~attempts[1].ov
        /\ Len(attempts') = 1 /\ ~attempts'[1].ov) =>
            UNCHANGED <<place, current, daily>>]_vars

\* C8: daily never has more than 7 entries, and when it is not empty it is
\* the first min(7, n) entries, in order, of the n-entry series the fetcher
\* returned.
C8_DailyIsPrefix ==
    /\ Len(daily) <= 7
    /\ daily # <<>> =>
        /\ Len(daily) = (IF Len(dailySrc) < 7 THEN Len(dailySrc) ELSE 7)
        /\ \A k \in 1..Len(daily) : daily[k] = dailySrc[k]

\* a series of more than 7 entries was cut to 7
C8_Witness == Len(dailySrc) > 7 /\ Len(daily) = 7

\* a geocoding response from which geocodePlace returns a place
GeoSucceeded(res) ==
    ~res.rejected /\ res.ok /\ res.results # None /\ Len(res.results[1]) > 0

\* C9: a call has a weather request outstanding only after its geocoding
\* request was answered with at least one candidate, and the request
\* carries the coordinates of the first candidate; a call whose geocoding
\* failed settles without having issued a weather request.
C9_WeatherAfterGeocoding ==
    /\ \A i \in InFlight :
         LET a == attempts[i]
         IN  /\ a.pc = "geo" => (a.req.kind = "geo" /\ a.geo = None)
             /\ a.req.kind = "wx" =>
                  /\ a.geo # None
                  /\ GeoSucceeded(a.geo[1])
                  /\ a.req.lat = a.geo[1].results[1][1].latitude
                  /\ a.req.lon = a.geo[1].results[1][1].longitude
    /\ (last.op = "settle" /\ last.geo # None /\ ~GeoSucceeded(last.geo[1])) =>
         (last.req.kind = "geo" /\ last.wx = None)

\* a weather request is outstanding for a response with two different
\* candidates
C9_Witness ==
    \E i \in InFlight :
        /\ attempts[i].req.kind = "wx"
        /\ Len(attempts[i].geo[1].results[1]) >= 2
        /\ attempts[i].geo[1].results[1][1] # attempts[i].geo[1].results[1][2]

\* a text of whitespace only, or the empty text
AllBlank(text) == \A k \in 1..Len(text) : text[k] = " "

\* C10: a search invocation whose query is empty after trimming changes
\* none of query, place, current, daily, loading, error, the stored query
\* and the calls in flight (so it issues no request).
C10_EmptySearchNoOp ==
    [][(last'.op = "search" /\ AllBlank(last'.input)) =>
            UNCHANGED <<query, place, current, daily, loading, error,
                        storage, attempts>>]_vars

\* a search with a whitespace-only query was invoked while a call was in
\* flight and results were on display
C10_Witness ==
    /\ last.op = "search"
    /\ last.input # <<>>
    /\ AllBlank(last.input)
    /\ loading
    /\ place # None

\* a weather response with status ok and a body that has every block and
\* every field
WxComplete(res) ==
    /\ ~res.rejected
    /\ res.ok
    /\ LET d == res.data[1]
       IN  /\ d.current_weather # None
           /\ \A f \in DOMAIN d.current_weather[1] :
                 d.current_weather[1][f] # None
           /\ d.hourly # None
           /\ \A f \in DOMAIN d.hourly[1] : d.hourly[1][f] # None
           /\ d.daily # None
           /\ \A f \in DOMAIN d.daily[1] : d.daily[1][f] # None

\* C11: no failure is terminal.  After a call has failed, a search invoked
\* with a query that is not blank starts a call and sets loading; and when
\* a call started after a failure has received a geocoding response with a
\* candidate and a complete weather response, it settles in success with
\* place and current populated and error empty.
C11_RetryAfterFailure ==
    [][/\ (early # None /\ last'.op = "search" /\ ~AllBlank(last'.input)) =>
            /\ Len(attempts') = Len(attempts) + 1
            /\ loading'
       /\ (/\ last'.op = "settle"
           /\ last'.retry
           /\ GeoSucceeded(last'.geo[1])
           /\ last'.wx # None
           /\ WxComplete(last'.wx[1])) =>
            /\ last'.ok
            /\ place' # None
            /\ current' # None
            /\ error' = ""]_vars

\* C12: the mount effect (the step that sets booted) starts exactly one
\* call, for the stored query, when the slot holds a non-empty string; when
\* the slot is unset or empty it starts no call, issues no request, and
\* leaves loading false, error empty, place and current null and daily
\* empty.
C12_StartupReplay ==
    [][(~booted /\ booted') =>
          IF storage # None /\ storage[1] # <<>>
          THEN /\ Len(attempts') = 1
               /\ attempts'[1].pc = "geo"
               /\ attempts'[1].q = storage[1]
               /\ attempts'[1].req = GeoRequest(storage[1])
               /\ loading'
          ELSE /\ attempts' = <<>>
               /\ ~loading'
               /\ error' = ""
               /\ place' = None
               /\ current' = None
               /\ daily' = <<>>]_vars

\* the mount effect has just replayed the stored query, after a reload
\* that followed a successful search
C12_Witness ==
    /\ booted
    /\ pre # None
    /\ last.op = "search"
    /\ Len(attempts) = 1
    /\ attempts[1].pc = "geo"
    /\ storage # None
    /\ query = storage[1]

\* the codes of the table, and the description of each
KnownCodes == {0, 1, 2, 3, 45, 48, 51, 53, 55, 61, 63, 65, 71, 73, 75, 80, 95}
Description(n) ==
    CASE n = 0 -> "Clear"
      [] n = 1 -> "Mainly clear"
      [] n = 2 -> "Partly cloudy"
      [] n = 3 -> "Overcast"
      [] n = 45 -> "Fog"
      [] n = 48 -> "Depositing rime fog"
      [] n = 51 -> "Light drizzle"
      [] n = 53 -> "Moderate drizzle"
      [] n = 55 -> "Dense drizzle"
      [] n = 61 -> "Slight rain"
      [] n = 63 -> "Moderate rain"
      [] n = 65 -> "Heavy rain"
      [] n = 71 -> "Slight snow"
      [] n = 73 -> "Moderate snow"
      [] n = 75 -> "Heavy snow"
      [] n = 80 -> "Rain showers"
      [] n = 95 -> "Thunderstorm"

\* C13: mapWmo gives, for each of the 17 codes of the table, the
\* description of that code, and for every other integer and for null the
\* fallback, whose description is "Unknown".
C13_ClassifierTotal ==
    ret # None =>
        LET code == arg[1]
        IN  IF code # None /\ code[1] \in KnownCodes
            THEN ret[1].text = Description(code[1])
            ELSE ret[1].text = "Unknown"

\* mapWmo was called with code 0, the one code of the table that is falsy
C13_Witness == ret # None /\ arg = Some(Some(0)) /\ ret[1].text = "Clear"

\* C14: loading is true whenever at least one call is in flight, and a step
\* sets it to false only when it leaves no call in flight.
C14_LoadingWhileInFlight ==
    [][/\ attempts' # <<>> => loading'
       /\ (loading /\ ~loading') => attempts' = <<>>]_vars

\* C17: when every request is answered in the end, every call settles:
\* whenever k calls are in flight, one of the k oldest settles (or the page
\* is reloaded), so the k-th oldest call settles or becomes the (k-1)-th
\* oldest, and the oldest settles.  A step that settles a call takes
\* exactly that call out of flight, after an answer to its request; no
\* other step but a page reload takes a call out of flight (there is no
\* timeout and no cancellation), so a call whose request is not answered
\* stays in flight.  Whenever no call is in flight loading is false.
C17_EveryCallSettles ==
    /\ \A k \in 1..MaxInFlight :
         (Len(attempts) >= k) ~>
             ((last.op = "settle" /\ last.at <= k) \/ ~booted)
    /\ [][/\ last'.op = "settle" =>
               /\ Len(attempts') = Len(attempts) - 1
               /\ last'.geo # None
               /\ last'.req.kind = "wx" => last'.wx # None
          /\ Len(attempts') < Len(attempts) =>
               (last'.op = "settle" \/ ~booted')]_vars
    /\ [](attempts = <<>> => ~loading)

\* the younger of two calls in flight has settled, the older is in flight
C17_Witness ==
    /\ last.op = "settle"
    /\ last.at = 2
    /\ Len(attempts) = 1

\* C18: the stored query, when there is one, is not empty and neither
\* begins nor ends with whitespace; so every value written to the slot is
\* such a text, and the mount effect's replay of it is not dropped as an
\* empty search.
C18_StoredQueryTrimmed ==
    storage # None =>
        LET v == storage[1]
        IN  /\ v # <<>>
            /\ v[1] # " "
            /\ v[Len(v)] # " "

\* the one call made so far, for a text typed with a space on each side,
\* has written its query and awaits the weather
C18_Witness ==
    /\ storage = Some(<<"a">>)
    /\ query = Padded(<<"a">>)
    /\ ~succeeded
    /\ Len(attempts) = 1
    /\ attempts[1].pc = "wx"
    /\ ~attempts[1].ov
    /\ error = ""

\* C15: fetchWeather throws only when the request is rejected or the status
\* is not ok.  For a response with status ok it returns a result, whatever
\* blocks and fields the body lacks: a field of current_weather that is
\* missing is null in currentData, and dailyList is empty when daily or
\* daily.time is missing.
C15_FetchToleratesMissing ==
    (ret # None /\ ~arg[1].rejected /\ arg[1].ok) =>
        /\ ~ret[1].threw
        /\ LET d == arg[1].data[1]
               out == ret[1].value[1]
           IN  /\ d.current_weather = None =>
                     /\ out.currentData.temp = None
                     /\ out.currentData.wind = None
                     /\ out.currentData.weathercode = None
                     /\ out.currentData.time = None
               /\ d.current_weather # None =>
                     /\ out.currentData.temp = d.current_weather[1].temperature
                     /\ out.currentData.wind = d.current_weather[1].windspeed
                     /\ out.currentData.weathercode =
                            d.current_weather[1].weathercode
                     /\ out.currentData.time = d.current_weather[1].time
               /\ (d.daily = None \/ d.daily[1].time = None) =>
                     out.dailyList = <<>>
               /\ (d.daily # None /\ d.daily[1].time # None) =>
                     Len(out.dailyList) = Len(d.daily[1].time[1])

\* the positions of timestamp t in the series `times`
Matches(times, t) == {k \in 1..Len(times) : times[k] = t}

\* C16: the humidity join.  In every result fetchWeather returns, humidity
\* is the entry of hourly.relativehumidity_2m at the first position of
\* hourly.time that holds exactly current_weather.time (null when the
\* humidity series has no entry there); it is null when no position holds
\* that time, when the observation time is missing, and when hourly,
\* hourly.time or hourly.relativehumidity_2m is missing.
C16_HumidityJoin ==
    (ret # None /\ ~ret[1].threw) =>
        LET d == arg[1].data[1]
            humidity == ret[1].value[1].currentData.humidity
        IN  IF /\ d.current_weather # None
               /\ d.current_weather[1].time # None
               /\ d.hourly # None
               /\ d.hourly[1].time # None
               /\ d.hourly[1].relativehumidity_2m # None
               /\ Matches(d.hourly[1].time[1],
                          d.current_weather[1].time[1]) # {}
            THEN LET M == Matches(d.hourly[1].time[1],
                                  d.current_weather[1].time[1])
                     first == CHOOSE k \in M : \A j \in M : k <= j
                     series == d.hourly[1].relativehumidity_2m[1]
                 IN  humidity = (IF first <= Len(series)
                                 THEN Some(series[first])
                                 ELSE None)
            ELSE humidity = None

\* the observation time occurs twice in hourly.time, and humidity is the
\* entry at its first position
C16_Witness ==
    /\ ret # None
    /\ ~ret[1].threw
    /\ ret[1].value[1].currentData.humidity = Some(72)
    /\ Cardinality(Matches(arg[1].data[1].hourly[1].time[1],
                           arg[1].data[1].current_weather[1].time[1])) = 2

====
